---- MODULE Spec2Model ----
(***************************************************************************)
(* A model of the pattern-recognition headers Knn.h, Pca.h and Lda.h.      *)
(*                                                                         *)
(* Each header defines one class.  The three classes share no state, so a  *)
(* behaviour of the model follows one object; `obj' names its class.       *)
(*                                                                         *)
(* Numbers.  data_type is a floating-point type in the headers.  Stored    *)
(* input values are the naturals of Vals; the centred matrix of Pca is kept *)
(* in fixed point (FixedPoint units per 1) and std::sqrt is the integer    *)
(* square root at SqrtScale units per 1.  The decomposition kernels of     *)
(* Eigen (JacobiSVD, EigenSolver) are external: the model keeps the shape  *)
(* of what they return and the accesses the headers make into it.          *)
(***************************************************************************)
EXTENDS Integers, Sequences, FiniteSets, TLC

\* ---------------------------------------------------------------- bounds
\* The largest number of points of the datasets that are queried, per class,
\* and of the datasets that are loaded.
KnnMaxN == 3
PcaMaxN == 2
LdaMaxN == 2
LoadMaxN == 2
\* The largest number of eigenvalues that are sorted.
SortMaxSize == 3
\* The units per 1 of std::sqrt's result and of the centred matrix of Pca.
SqrtScale == 10
FixedPoint == 6

\* The values of data_type and of label_type that the buffers hold.
Vals == {0, 1}
Labels == {"A", "B"}
\* The dimensions of the datasets that are queried, per class, and of the
\* datasets that are loaded.
KnnDims == {1}
PcaDims == {1, 2, 3}
LdaDims == {1, 2}
KnnLoadDims == {1, 2}
PcaLoadDims == {1, 2}
LdaLoadDims == {1}
\* The eigenvalues that are sorted.
EigenVals == {0, 1, 2}

\* label_type(): the value-initialised label returned by Knn::operator[].
DefaultLabel == "label_type()"
\* A label value that is neither the default nor a label of the data: what
\* reading the uninitialised local `label' of neighborVote may produce.
Indeterminate == "indeterminate"
\* The null pointer held in m_testData.
NULL == "nullptr"

\* A buffer argument: a pointer that is null, or points at the values `at'.
NullBuf == [null |-> TRUE, at |-> <<>>]
Buf(s) == [null |-> FALSE, at |-> s]

VARIABLES
    obj,           \* "Knn", "Pca" or "Lda": the class of the object followed
    knn_dataSet,   \* Knn::m_dataSet, a sequence of KNN::Data
    knn_testData,  \* Knn::m_testData: NULL or "q", the address of qbuf
    qbuf,          \* the caller's query buffer that "q" points to
    pca_dataSet,   \* Pca::m_dataSet, the centred dim x size matrix
    lda_dataSet,   \* Lda::m_dataSet, one dim x (class size) matrix per class
    lda_labelSet,  \* Lda::m_labelSet, the label of each of those matrices
    last           \* the last call made on the object and what it returned

vars == <<obj, knn_dataSet, knn_testData, qbuf, pca_dataSet, lda_dataSet, lda_labelSet, last>>
knnVars == <<knn_dataSet, knn_testData, qbuf>>
pcaVars == <<pca_dataSet>>
ldaVars == <<lda_dataSet, lda_labelSet>>

\* ------------------------------------------------------------- helpers
RECURSIVE SumSeq(_)
SumSeq(s) == IF s = <<>> THEN 0 ELSE Head(s) + SumSeq(Tail(s))

Max(S) == CHOOSE x \in S : \A y \in S : y <= x

\* All sequences of length n over S.
SeqsOf(S, n) == [1..n -> S]

\* The rearrangements of a sequence.
Perms(s) == { [i \in 1..Len(s) |-> s[p[i]]] : p \in Permutations(1..Len(s)) }

\* The orders in which the elements of a set can be enumerated.
Orders(S) == { f \in [1..Cardinality(S) -> S] : \A i, j \in DOMAIN f : f[i] = f[j] => i = j }

\* ------------------------------------------------------------ KNN::Data
\* std::sqrt on the non-negative sum of squares, in SqrtScale-ths.
Sqrt(x) ==
    CHOOSE r \in 0..(x * SqrtScale) :
        /\ r * r <= x * SqrtScale * SqrtScale
        /\ (r + 1) * (r + 1) > x * SqrtScale * SqrtScale

\* Data::EuclideanDistance(test): the loop runs over the indices of m_data.
EuclideanDistance(m_data, test) ==
    Sqrt(SumSeq([i \in 1..Len(m_data) |-> (m_data[i] - test[i]) * (m_data[i] - test[i])]))

\* KnnLabelGreater with the comparison turned round.
KnnLabelGreaterAsLess(left, right) == left[1] < right[1]

\* KNN::KnnLabelGreater: compares the distances of two (distance, label) pairs.
KnnLabelGreater(left, right) == left[1] > right[1]

\* ------------------------------------------------------ <algorithm> heap
\* [first, last) is a heap with respect to comp: no parent compares less
\* than a child.
IsHeap(s) == \A i \in 2..Len(s) : ~KnnLabelGreater(s[i \div 2], s[i])

\* std::make_heap(first, last, m_greater): some rearrangement that is a heap.
MakeHeap(s) == { h \in Perms(s) : IsHeap(h) }

\* std::pop_heap(first, last, m_greater) on a non-empty heap: the front goes
\* to the back and [first, last-1) is a heap again.
PopHeap(s) == { Append(h, s[1]) : h \in MakeHeap(Tail(s)) }

\* ------------------------------------------------------------------ Knn
\* The values EuclideanDistance reads through m_testData[0 .. dim-1].  An
\* element of a live buffer reads as stored; an element past its end, or of
\* a released buffer, reads as anything.  A null m_testData yields no value.
KnnTestReads(dim) ==
    IF knn_testData = NULL THEN {}
    ELSE { t \in SeqsOf(Vals, dim) :
             \A i \in 1..dim : (qbuf.live /\ i <= Len(qbuf.val)) => t[i] = qbuf.val[i] }

\* m_testData points at dim readable values.
KnnTestReadable(dim) == knn_testData # NULL /\ qbuf.live /\ Len(qbuf.val) >= dim

\* The vector `distance' built by the first loop of operator[].
KnnDistance(t) ==
    [i \in 1..Len(knn_dataSet) |->
        <<EuclideanDistance(knn_dataSet[i].m_data, t), knn_dataSet[i].m_label>>]

\* VoteScan without the update of `count'.
RECURSIVE VoteScanStaleCount(_, _, _, _)
VoteScanStaleCount(order, voter, label, count) ==
    IF order = <<>> THEN label
    ELSE LET v == Head(order) IN
         IF voter[v] > count
         THEN VoteScanStaleCount(Tail(order), voter, v, count)
         ELSE VoteScanStaleCount(Tail(order), voter, label, count)

\* The second loop of neighborVote: `label' and `count' after visiting the
\* entries of voter in the order `order'.
RECURSIVE VoteScan(_, _, _, _)
VoteScan(order, voter, label, count) ==
    IF order = <<>> THEN label
    ELSE LET v == Head(order) IN
         IF voter[v] > count
         THEN VoteScan(Tail(order), voter, v, voter[v])
         ELSE VoteScan(Tail(order), voter, label, count)

\* Knn::neighborVote(labels): the labels it can return.  voter is an
\* unordered_map, iterated in an unspecified order; `label' starts
\* uninitialised (any label_type value).
neighborVote(labels) ==
    LET keys == { labels[i] : i \in DOMAIN labels }
        voter == [l \in keys |-> Cardinality({ i \in DOMAIN labels : labels[i] = l })]
    IN  { VoteScan(order, voter, u, 0) :
            order \in Orders(keys), u \in Labels \cup {DefaultLabel, Indeterminate} }

\* The loop `for (int i = K; i--;)' of operator[]: pop_heap, push the label
\* at the back, pop_back.  Yields the possible (result, oob) pairs; oob says
\* that pop_heap/back() ran on an empty vector.
RECURSIVE KnnPopLoop(_, _, _)
KnnPopLoop(distance, result, i) ==
    IF i = 0 THEN { [result |-> result, oob |-> FALSE] }
    ELSE IF distance = <<>> THEN { [result |-> result, oob |-> TRUE] }
    ELSE UNION { KnnPopLoop(SubSeq(d, 1, Len(d) - 1), Append(result, d[Len(d)][2]), i - 1) :
                   d \in PopHeap(distance) }

\* KnnKInRange letting one K too many through.
KnnKInRangeOffByOne(K, size) == K <= size + 1

\* The test `K <= m_dataSet.size()' of operator[].
KnnKInRange(K, size) == K <= size

\* What operator[] does after make_heap, on the heap h.
KnnSelect(h, K) ==
    IF K = 1
    THEN IF h = <<>>
         THEN { [ret |-> Indeterminate, oob |-> TRUE] }
         ELSE { [ret |-> h[1][2], oob |-> FALSE] }
    ELSE UNION { { [ret |-> l, oob |-> r.oob] : l \in neighborVote(r.result) } :
                   r \in KnnPopLoop(h, <<>>, K) }

\* Knn::operator[](K): the possible outcomes of a call.
KnnResolveOutcomes(K) ==
    LET N == Len(knn_dataSet)
        dim == IF N = 0 THEN 0 ELSE Len(knn_dataSet[1].m_data)
        ub == N > 0 /\ ~KnnTestReadable(dim)
    IN  IF KnnKInRange(K, N)
        THEN { [status |-> "returned", ret |-> s.ret, oob |-> s.oob, ub |-> ub] :
                 s \in UNION { KnnSelect(h, K) :
                                 h \in UNION { MakeHeap(KnnDistance(t)) : t \in KnnTestReads(dim) } } }
             \cup (IF ub THEN { [status |-> "crashed", ret |-> Indeterminate, oob |-> FALSE, ub |-> TRUE] }
                   ELSE {})
        ELSE { [status |-> "returned", ret |-> DefaultLabel, oob |-> FALSE, ub |-> FALSE] }

\* KnnResolve that clears the pending query once it has answered.
KnnResolveConsuming(K) ==
    /\ obj = "Knn"
    /\ \E o \in KnnResolveOutcomes(K) :
          last' = [op |-> "Knn::operator[]", K |-> K, status |-> o.status,
                   ret |-> o.ret, oob |-> o.oob, ub |-> o.ub]
    /\ knn_testData' = NULL
    /\ UNCHANGED <<obj, knn_dataSet, qbuf, pcaVars, ldaVars>>

\* label_type operator[](const unsigned int K)
KnnResolve(K) ==
    /\ obj = "Knn"
    /\ \E o \in KnnResolveOutcomes(K) :
          last' = [op |-> "Knn::operator[]", K |-> K, status |-> o.status,
                   ret |-> o.ret, oob |-> o.oob, ub |-> o.ub]
    /\ UNCHANGED <<obj, knn_dataSet, knn_testData, qbuf, pcaVars, ldaVars>>

\* Knn& classify(const data_type* data)
KnnClassify(data) ==
    /\ obj = "Knn"
    /\ knn_testData' = data
    /\ last' = [op |-> "Knn::classify"]
    /\ UNCHANGED <<obj, knn_dataSet, qbuf, pcaVars, ldaVars>>

\* The caller stores v in its query buffer (allocating it if need be).
CallerWrite(v) ==
    /\ obj = "Knn"
    /\ qbuf' = [live |-> TRUE, val |-> v]
    /\ last' = [op |-> "caller"]
    /\ UNCHANGED <<obj, knn_dataSet, knn_testData, pcaVars, ldaVars>>

\* The caller releases its query buffer.
CallerRelease ==
    /\ obj = "Knn"
    /\ qbuf.live
    /\ qbuf' = [live |-> FALSE, val |-> <<>>]
    /\ last' = [op |-> "caller"]
    /\ UNCHANGED <<obj, knn_dataSet, knn_testData, pcaVars, ldaVars>>

\* buf[i] as C++ reads it: an index past the end reads junk.
ReadAt(buf, i, junk) == IF i <= Len(buf) THEN buf[i] ELSE junk

\* The test `data && dim && label && size' of Knn::init.
KnnInitGuard(a) == ~a.data.null /\ a.dim # 0 /\ ~a.label.null /\ a.size # 0

\* KnnInitStore without the clear(): the new points follow the old ones.
KnnInitStoreNoClear(a, jv, jl) ==
    knn_dataSet \o
    [i \in 1..a.size |->
        [m_data  |-> [k \in 1..a.dim |-> ReadAt(a.data.at, (i - 1) * a.dim + k, jv)],
         m_label |-> ReadAt(a.label.at, i, jl)]]

\* The vector Knn::init builds: clear(), then one KnnData per i < size from
\* data[i*dim .. i*dim+dim-1] and label[i].
KnnInitStore(a, jv, jl) ==
    [i \in 1..a.size |->
        [m_data  |-> [k \in 1..a.dim |-> ReadAt(a.data.at, (i - 1) * a.dim + k, jv)],
         m_label |-> ReadAt(a.label.at, i, jl)]]

\* What a read past the end of data or of label may produce in init.
KnnJunkVals(a) == IF Len(a.data.at) < a.dim * a.size THEN Vals ELSE {0}
KnnJunkLabels(a) == IF Len(a.label.at) < a.size THEN Labels ELSE {"A"}

\* How the store a load replaced relates to the one it wrote: "empty" when
\* nothing was loaded before, "equal" when it held the same, else "other".
Prior(old, empty, new) ==
    IF old = empty THEN "empty" ELSE IF old = new THEN "equal" ELSE "other"

\* void init(const data_type* data, unsigned dim, const label_type* label, unsigned size)
KnnInit(a) ==
    /\ obj = "Knn"
    /\ IF KnnInitGuard(a)
       THEN \E jv \in KnnJunkVals(a), jl \in KnnJunkLabels(a) :
               /\ knn_dataSet' = KnnInitStore(a, jv, jl)
               /\ last' = [op |-> "Knn::init", args |-> a,
                           prev |-> Prior(knn_dataSet, <<>>, knn_dataSet')]
       ELSE /\ knn_dataSet' = knn_dataSet
            /\ last' = [op |-> "Knn::init", args |-> a, prev |-> "kept"]
    /\ UNCHANGED <<obj, knn_testData, qbuf, pcaVars, ldaVars>>

\* -------------------------------------------------- arguments of Knn::init
\* Buffers of exactly dim*size values and size labels, for the dimensions
\* dims and the sizes 1..maxN.
KnnExactArgs(dims, maxN) ==
    UNION { { [data |-> Buf(d), dim |-> dim, label |-> Buf(l), size |-> size] :
                d \in SeqsOf(Vals, dim * size), l \in SeqsOf(Labels, size) } :
            dim \in dims, size \in 1..maxN }

\* A call for LoadMaxN points of the largest dimension.
KnnPlainArgs ==
    LET dim == Max(KnnLoadDims)
    IN  [data |-> Buf([i \in 1..(dim * LoadMaxN) |-> 0]), dim |-> dim,
         label |-> Buf([i \in 1..LoadMaxN |-> "A"]), size |-> LoadMaxN]

\* Calls with a null buffer, a zero dimension or a zero size.
KnnNullArgs ==
    LET a == KnnPlainArgs
    IN  { [a EXCEPT !.data = NullBuf], [a EXCEPT !.label = NullBuf],
          [a EXCEPT !.dim = 0], [a EXCEPT !.size = 0],
          [a EXCEPT !.data = Buf(<<>>), !.label = Buf(<<>>), !.size = 0] }

\* Calls whose data buffer is one value short or one value long, or whose
\* label buffer is one label short or one label long.
KnnMismatchArgs ==
    LET a == KnnPlainArgs
    IN  { [a EXCEPT !.data = Buf(SubSeq(a.data.at, 1, Len(a.data.at) - 1))],
          [a EXCEPT !.data = Buf(Append(a.data.at, 1))],
          [a EXCEPT !.label = Buf(SubSeq(a.label.at, 1, Len(a.label.at) - 1))],
          [a EXCEPT !.label = Buf(Append(a.label.at, "B"))] }

KnnInitArgs == KnnExactArgs(KnnLoadDims, LoadMaxN) \cup KnnNullArgs \cup KnnMismatchArgs

\* K is unsigned; one past the largest size is enough to exceed every size.
KnnKs == 0..(KnnMaxN + 1)

\* The caller's query vectors.
QueryVals == UNION { SeqsOf(Vals, n) : n \in KnnDims }

\* ------------------------------------------------------------ matrices
\* An Eigen matrix: rows, cols and the coefficients in column-major order.
EmptyMatrix == [rows |-> 0, cols |-> 0, val |-> <<>>]
Coef(m, i, j) == m.val[(j - 1) * m.rows + i]
Min(a, b) == IF a <= b THEN a ELSE b

\* Eigen::Map<const Matrix>(data, rows, cols): column j is the j-th point.
EigenMap(data, rows, cols) ==
    [rows |-> rows, cols |-> cols, val |-> [k \in 1..(rows * cols) |-> data[k]]]

\* ------------------------------------------------------------------ Pca
\* PcaReduceGuard without the test of size.
PcaReduceGuardNoSize(a) == ~a.data.null /\ a.dim # 0

\* The test `data && dim && size' of Pca::reduce.
PcaReduceGuard(a) == ~a.data.null /\ a.dim # 0 /\ a.size # 0

\* m_dataSet.rowwise().mean(), in FixedPoint-ths.
PcaMeans(m) ==
    [i \in 1..m.rows |->
        (FixedPoint * SumSeq([j \in 1..m.cols |-> Coef(m, i, j)])) \div m.cols]

\* The matrix Pca::reduce stores: the mapped data with the mean of its row
\* subtracted from every coefficient, in FixedPoint-ths.
PcaReduceStore(a) ==
    LET m == EigenMap(a.data.at, a.dim, a.size)
        means == PcaMeans(m)
    IN  [rows |-> m.rows, cols |-> m.cols,
         val |-> [k \in 1..(m.rows * m.cols) |->
                    FixedPoint * m.val[k] - means[((k - 1) % m.rows) + 1]]]

\* Pca& reduce(const data_type* data, unsigned int dim, unsigned int size)
PcaReduce(a) ==
    /\ obj = "Pca"
    /\ IF PcaReduceGuard(a)
       THEN /\ pca_dataSet' = PcaReduceStore(a)
            /\ last' = [op |-> "Pca::reduce", args |-> a,
                        prev |-> Prior(pca_dataSet, EmptyMatrix, pca_dataSet')]
       ELSE /\ pca_dataSet' = pca_dataSet
            /\ last' = [op |-> "Pca::reduce", args |-> a, prev |-> "kept"]
    /\ UNCHANGED <<obj, knnVars, ldaVars>>

\* `if (0 >= K && K >= U.cols()) K = U.cols() - 1;'
PcaValidK(K, Ucols) == IF 0 >= K /\ K >= Ucols THEN Ucols - 1 ELSE K

\* The loop over the rows of U: a row whose coefficient of largest absolute
\* value is negative is multiplied by -1.  A row of U is a singular direction
\* of m_dataSet or its opposite; `sign' is the sign of that coefficient.
PcaAdjustSign(sign) == IF sign < 0 THEN -sign ELSE sign

\* What the rows of U.block(0, 0, K, U.cols()) hold, one entry per row.  A
\* row of U holds the direction the decomposition gave it, adjusted; a row
\* past the last row of U is memory that is not U's and holds anything (two
\* contents stand for all).
PcaBlockRows(k, Urows) ==
    UNION { { [i \in 1..k |-> IF i <= Urows THEN PcaAdjustSign(svd[i]) ELSE out[i]] :
                out \in [1..k -> {-1, 1}] } :
            svd \in [1..Urows -> {-1, 1}] }

\* Pca::operator[](K): the possible outcomes of a call.  U is the transposed
\* thin U of the SVD of the dim x size matrix: min(dim, size) rows, dim
\* columns.  U.block(0, 0, K, U.cols()) is inside U when 0 <= K <= U.rows();
\* outside it the call stops on Eigen's assertion or, built without
\* assertions, carries on over memory that is not U's.  The values returned
\* are the product of the block and m_dataSet: `values' names the block.
PcaResolveOutcomes(K) ==
    LET Urows == Min(pca_dataSet.rows, pca_dataSet.cols)
        Ucols == pca_dataSet.rows
        k == PcaValidK(K, Ucols)
    IN  IF 0 <= k /\ k <= Urows
        THEN { [status |-> "returned", len |-> k * pca_dataSet.cols, values |-> b, oob |-> FALSE] :
                 b \in PcaBlockRows(k, Urows) }
        ELSE { [status |-> "aborted", len |-> 0, values |-> <<>>, oob |-> TRUE] }
             \cup (IF k > 0
                   THEN { [status |-> "returned", len |-> k * pca_dataSet.cols, values |-> b,
                           oob |-> TRUE] : b \in PcaBlockRows(k, Urows) }
                   ELSE {})

\* stdVectorData operator[](int K)
PcaResolve(K) ==
    /\ obj = "Pca"
    /\ \E o \in PcaResolveOutcomes(K) :
          last' = [op |-> "Pca::operator[]", K |-> K, status |-> o.status,
                   len |-> o.len, values |-> o.values, oob |-> o.oob]
    /\ UNCHANGED <<obj, knnVars, pcaVars, ldaVars>>

\* ---------------------------------------------- arguments of Pca::reduce
PcaExactArgs(dims, maxN) ==
    UNION { { [data |-> Buf(d), dim |-> dim, size |-> size] : d \in SeqsOf(Vals, dim * size) } :
            dim \in dims, size \in 1..maxN }

PcaPlainArgs ==
    LET dim == Max(PcaLoadDims)
    IN  [data |-> Buf([i \in 1..(dim * LoadMaxN) |-> 0]), dim |-> dim, size |-> LoadMaxN]

PcaNullArgs ==
    LET a == PcaPlainArgs
    IN  { [a EXCEPT !.data = NullBuf], [a EXCEPT !.dim = 0], [a EXCEPT !.size = 0] }

PcaReduceArgs == PcaExactArgs(PcaLoadDims, LoadMaxN) \cup PcaNullArgs

\* K is an int.
PcaKs == (-1)..(Max(PcaDims) + 1)

\* ------------------------------------------------------------------ Lda
\* The test `data && dim && label && size' of Lda::reduce.
LdaReduceGuard(a) == ~a.data.null /\ a.dim # 0 /\ ~a.label.null /\ a.size # 0

\* dataMapper[key] after the first loop of Lda::reduce: the values of the
\* points labelled key, in the order of the input.
RECURSIVE LdaSubSet(_, _, _)
LdaSubSet(a, key, i) ==
    IF i > a.size THEN <<>>
    ELSE (IF a.label.at[i] = key
          THEN SubSeq(a.data.at, (i - 1) * a.dim + 1, i * a.dim)
          ELSE <<>>) \o LdaSubSet(a, key, i + 1)

LdaKeys(a) == { a.label.at[i] : i \in 1..a.size }

\* LdaReduceStore pushing the keys in the opposite order to the matrices.
LdaReduceStoreKeysReversed(a, order) ==
    [dataSet  |-> [c \in DOMAIN order |->
                     LET value == LdaSubSet(a, order[c], 1)
                     IN  EigenMap(value, a.dim, Len(value) \div a.dim)],
     labelSet |-> [c \in DOMAIN order |-> order[Len(order) + 1 - c]]]

\* m_dataSet and m_labelSet after the second loop, which visits dataMapper
\* (an unordered_map) in the order `order'.
LdaReduceStore(a, order) ==
    [dataSet  |-> [c \in DOMAIN order |->
                     LET value == LdaSubSet(a, order[c], 1)
                     IN  EigenMap(value, a.dim, Len(value) \div a.dim)],
     labelSet |-> order]

\* Lda& reduce(const data_type* data, unsigned dim, const label_type* label, unsigned size)
LdaReduce(a) ==
    /\ obj = "Lda"
    /\ IF LdaReduceGuard(a)
       THEN \E order \in Orders(LdaKeys(a)) :
               LET s == LdaReduceStore(a, order) IN
               /\ lda_dataSet' = s.dataSet
               /\ lda_labelSet' = s.labelSet
               /\ last' = [op |-> "Lda::reduce", args |-> a,
                           prev |-> Prior(<<lda_dataSet, lda_labelSet>>, <<<<>>, <<>>>>,
                                          <<s.dataSet, s.labelSet>>)]
       ELSE /\ UNCHANGED <<lda_dataSet, lda_labelSet>>
            /\ last' = [op |-> "Lda::reduce", args |-> a, prev |-> "kept"]
    /\ UNCHANGED <<obj, knnVars, pcaVars>>

\* The determinant of the n x n matrix M (a sequence of rows).
RECURSIVE Det(_, _)
Det(M, n) ==
    IF n = 0 THEN 1
    ELSE LET Minor(c) == [i \in 1..(n - 1) |->
                            [j \in 1..(n - 1) |-> M[i + 1][IF j < c THEN j ELSE j + 1]]]
             Sign(c) == IF c % 2 = 1 THEN 1 ELSE -1
         IN  SumSeq([c \in 1..n |-> Sign(c) * M[1][c] * Det(Minor(c), n - 1)])

RECURSIVE ProdSeq(_)
ProdSeq(s) == IF s = <<>> THEN 1 ELSE Head(s) * ProdSeq(Tail(s))

\* temp * temp.transpose() for temp = m.colwise() - mean, times cols^2 (so
\* that it is whole): entry (i, k).
LdaScatter(m, i, k) ==
    LET dev(r, j) == m.cols * Coef(m, r, j) - SumSeq([jj \in 1..m.cols |-> Coef(m, r, jj)])
    IN  SumSeq([j \in 1..m.cols |-> dev(i, j) * dev(k, j)])

\* The divisor `temp.cols() - 1' of some class is zero.
LdaDividesByZero == \E c \in DOMAIN lda_dataSet : lda_dataSet[c].cols = 1

\* Sw, times the product of the classes' cols^2 * (cols - 1); defined when no
\* class has a single column.
LdaSw ==
    LET dimNum == lda_dataSet[1].rows
        den(c) == lda_dataSet[c].cols * lda_dataSet[c].cols * (lda_dataSet[c].cols - 1)
        all == ProdSeq([c \in DOMAIN lda_dataSet |-> den(c)])
    IN  [i \in 1..dimNum |-> [k \in 1..dimNum |->
            SumSeq([c \in DOMAIN lda_dataSet |->
                      LdaScatter(lda_dataSet[c], i, k) * (all \div den(c))])]]

\* Sw has no inverse.
LdaSwSingular == LdaDividesByZero \/ Det(LdaSw, lda_dataSet[1].rows) = 0

\* `if (0 >= K && K >= dimNum) K = dimNum - 1;'
LdaValidK(K, dimNum) == IF 0 >= K /\ K >= dimNum THEN dimNum - 1 ELSE K

RECURSIVE LdaTotalNum(_)
LdaTotalNum(dataSet) ==
    IF dataSet = <<>> THEN 0 ELSE Head(dataSet).cols + LdaTotalNum(Tail(dataSet))

\* Lda::operator[](K): the possible outcomes of a call.  m_dataSet[0] of an
\* empty vector is a read through a null pointer.  No step tests Sw: with a
\* singular Sw, Sw.inverse() yields non-finite coefficients and the call
\* returns them projected, or stops on an assertion of the eigen solver.
\* eigenVectors is dimNum x dimNum; block(0, 0, rows, K) is inside it when
\* 0 <= K <= dimNum.
LdaResolveOutcomes(K) ==
    IF lda_dataSet = <<>>
    THEN { [status |-> "crashed", len |-> 0, values |-> "none", oob |-> TRUE] }
    ELSE LET dimNum == lda_dataSet[1].rows
             k == LdaValidK(K, dimNum)
             N == LdaTotalNum(lda_dataSet)
             values == IF LdaSwSingular THEN "non-finite" ELSE "finite"
         IN  IF 0 <= k /\ k <= dimNum
             THEN { [status |-> "returned", len |-> k * N, values |-> values, oob |-> FALSE] }
                  \cup (IF LdaSwSingular
                        THEN { [status |-> "aborted", len |-> 0, values |-> "none", oob |-> FALSE] }
                        ELSE {})
             ELSE { [status |-> "aborted", len |-> 0, values |-> "none", oob |-> TRUE] }
                  \cup (IF k > 0
                        THEN { [status |-> "returned", len |-> k * N, values |-> "non-finite",
                                oob |-> TRUE] }
                        ELSE {})

\* stdVectorData operator[](int K)
LdaResolve(K) ==
    /\ obj = "Lda"
    /\ \E o \in LdaResolveOutcomes(K) :
          last' = [op |-> "Lda::operator[]", K |-> K, status |-> o.status,
                   len |-> o.len, values |-> o.values, oob |-> o.oob]
    /\ UNCHANGED <<obj, knnVars, pcaVars, ldaVars>>

\* ----------------------------------------------- sortEigenVectorByValues
\* m.col(j)
Col(m, j) == [r \in 1..m.rows |-> Coef(m, r, j)]

\* EigenValueGreater with the comparison turned round.
EigenValueGreaterAsLess(a, b) == a[1] < b[1]

\* The lambda given to std::sort: std::get<0>(a) > std::get<0>(b), on
\* (eigenvalue, eigenvector) tuples.
EigenValueGreater(a, b) == a[1] > b[1]

\* std::sort(first, last, comp): some rearrangement in which no element
\* compares before an earlier one (elements that compare equal come in any
\* order).
StdSort(s) ==
    { p \in Perms(s) : \A i, j \in 1..Len(p) : i < j => ~EigenValueGreater(p[j], p[i]) }

\* Lda::sortEigenVectorByValues(eigenValues, eigenVectors): the matrices
\* eigenVectors can be on return.  The tuples hold copies of the columns;
\* after the sort, column i is swapped with the copy in tuple i.  eigenValues
\* is left as it was.
sortEigenVectorByValues(eigenValues, eigenVectors) ==
    LET size == Len(eigenValues)
        eigenValueAndVector == [i \in 1..size |-> <<eigenValues[i], Col(eigenVectors, i)>>]
    IN  { [rows |-> eigenVectors.rows, cols |-> eigenVectors.cols,
           val  |-> [k \in 1..(eigenVectors.rows * eigenVectors.cols) |->
                       LET j == ((k - 1) \div eigenVectors.rows) + 1
                           r == ((k - 1) % eigenVectors.rows) + 1
                       IN  IF j <= size THEN sorted[j][2][r] ELSE eigenVectors.val[k]]] :
          sorted \in StdSort(eigenValueAndVector) }

\* The call at line 83 of operator[], on what the eigen solver returned.
LdaSort ==
    /\ obj = "Lda"
    /\ last.op = "EigenSolver"
    /\ \E m \in sortEigenVectorByValues(last.eigenValues, last.eigenVectors) :
          last' = [op |-> "Lda::sortEigenVectorByValues",
                   args |-> [eigenValues |-> last.eigenValues, eigenVectors |-> last.eigenVectors],
                   eigenValues |-> last.eigenValues, eigenVectors |-> m]
    /\ UNCHANGED <<obj, knnVars, pcaVars, ldaVars>>

\* The size x size matrices whose columns are unit coordinate vectors.
UnitColumnMatrices(size) ==
    { [rows |-> size, cols |-> size,
       val  |-> [k \in 1..(size * size) |->
                   IF ((k - 1) % size) + 1 = at[((k - 1) \div size) + 1] THEN 1 ELSE 0]] :
      at \in [1..size -> 1..size] }

\* ---------------------------------------------- arguments of Lda::reduce
LdaExactArgs(dims, maxN) ==
    UNION { { [data |-> Buf(d), dim |-> dim, label |-> Buf(l), size |-> size] :
                d \in SeqsOf(Vals, dim * size), l \in SeqsOf(Labels, size) } :
            dim \in dims, size \in 1..maxN }

LdaPlainArgs ==
    LET dim == Max(LdaLoadDims)
    IN  [data |-> Buf([i \in 1..(dim * LoadMaxN) |-> 0]), dim |-> dim,
         label |-> Buf([i \in 1..LoadMaxN |-> "A"]), size |-> LoadMaxN]

LdaNullArgs ==
    LET a == LdaPlainArgs
    IN  { [a EXCEPT !.data = NullBuf], [a EXCEPT !.label = NullBuf],
          [a EXCEPT !.dim = 0], [a EXCEPT !.size = 0] }

LdaReduceArgs == LdaExactArgs(LdaLoadDims, LoadMaxN) \cup LdaNullArgs

\* K is an int.
LdaKs == (-1)..(Max(LdaDims) + 1)

\* -------------------------------------------------------- specifications
Classes == {"Knn", "Pca", "Lda"}

\* A default-constructed object: Knn() : m_testData(nullptr), Pca() and
\* Lda() = default; every container is empty.
Init ==
    /\ obj \in Classes
    /\ knn_dataSet = <<>>
    /\ knn_testData = NULL
    /\ qbuf = [live |-> FALSE, val |-> <<>>]
    /\ pca_dataSet = EmptyMatrix
    /\ lda_dataSet = <<>>
    /\ lda_labelSet = <<>>
    /\ last = [op |-> "new"]

Load ==
    \/ \E a \in KnnInitArgs : KnnInit(a)
    \/ \E a \in PcaReduceArgs : PcaReduce(a)
    \/ \E a \in LdaReduceArgs : LdaReduce(a)

Query ==
    \/ \E K \in KnnKs : KnnResolve(K)
    \/ \E p \in {NULL, "q"} : KnnClassify(p)
    \/ \E v \in QueryVals : CallerWrite(v)
    \/ CallerRelease
    \/ \E K \in PcaKs : PcaResolve(K)
    \/ \E K \in LdaKs : LdaResolve(K)

Next == Load \/ Query

\* Every call on an object, from its construction.
Spec == Init /\ [][Next]_vars

\* The loads of an object, from its construction.
SpecLoad == Init /\ [][Load]_vars

\* An object that was constructed and then loaded at most once with
\* well-formed buffers, of the sizes the queries are checked for.
InitLoaded ==
    /\ obj \in Classes
    /\ knn_testData = NULL
    /\ qbuf = [live |-> FALSE, val |-> <<>>]
    /\ last = [op |-> "new"]
    /\ \/ /\ obj = "Knn"
          /\ knn_dataSet \in {<<>>} \cup { KnnInitStore(a, 0, "A") : a \in KnnExactArgs(KnnDims, KnnMaxN) }
          /\ pca_dataSet = EmptyMatrix
          /\ lda_dataSet = <<>>
          /\ lda_labelSet = <<>>
       \/ /\ obj = "Pca"
          /\ knn_dataSet = <<>>
          /\ pca_dataSet \in {EmptyMatrix} \cup { PcaReduceStore(a) : a \in PcaExactArgs(PcaDims, PcaMaxN) }
          /\ lda_dataSet = <<>>
          /\ lda_labelSet = <<>>
       \/ /\ obj = "Lda"
          /\ knn_dataSet = <<>>
          /\ pca_dataSet = EmptyMatrix
          /\ \E s \in {[dataSet |-> <<>>, labelSet |-> <<>>]}
                   \cup UNION { { LdaReduceStore(a, order) : order \in Orders(LdaKeys(a)) } :
                                a \in LdaExactArgs(LdaDims, LdaMaxN) } :
                /\ lda_dataSet = s.dataSet
                /\ lda_labelSet = s.labelSet

\* The queries of such an object.
SpecQuery == InitLoaded /\ [][Query]_vars

\* Lda::operator[] at line 83: the eigen solver has returned eigenValues and
\* eigenVectors, of the size of the dimension.
InitSort ==
    /\ obj = "Lda"
    /\ knn_dataSet = <<>>
    /\ knn_testData = NULL
    /\ qbuf = [live |-> FALSE, val |-> <<>>]
    /\ pca_dataSet = EmptyMatrix
    /\ lda_dataSet = <<>>
    /\ lda_labelSet = <<>>
    /\ \E size \in 1..SortMaxSize :
          \E v \in SeqsOf(EigenVals, size), m \in UnitColumnMatrices(size) :
             last = [op |-> "EigenSolver", eigenValues |-> v, eigenVectors |-> m]

\* The sort of the eigenvectors of one call of operator[].
SpecSort == InitSort /\ [][LdaSort]_vars

\* ------------------------------------------------------------ properties
\* The squared Euclidean distance between two vectors of the same length.
SqDist(p, q) == SumSeq([i \in 1..Len(p) |-> (p[i] - q[i]) * (p[i] - q[i])])

KnnN == Len(knn_dataSet)
KnnDim == IF knn_dataSet = <<>> THEN 0 ELSE Len(knn_dataSet[1].m_data)
\* The pending query, as far as the stored points reach into it.
KnnQuery == SubSeq(qbuf.val, 1, KnnDim)
KnnDistTo(i) == SqDist(knn_dataSet[i].m_data, KnnQuery)
KnnResolved == last.op = "Knn::operator[]"

\* C1: a resolve with K greater than the number N of stored points returns
\* the default-constructed label, reads nothing outside the N stored points
\* and their distance entries, reads no query, and leaves the stored dataset
\* as it was; for every N >= 0.
C1_KAboveSizeReturnsDefault ==
    [][ (last'.op = "Knn::operator[]" /\ last'.K > Len(knn_dataSet))
        => /\ last'.status = "returned"
           /\ last'.ret = DefaultLabel
           /\ ~last'.oob
           /\ ~last'.ub
           /\ knn_dataSet' = knn_dataSet ]_vars

C1_Witness == KnnResolved /\ last.K > KnnN /\ KnnN >= 1 /\ last.ret = DefaultLabel

\* C2: with N >= 1 stored points and a readable pending query, a resolve
\* with K = 1 returns the label of a stored point that no stored point is
\* strictly closer to the query than.
C2_OneNnReturnsNearest ==
    (KnnResolved /\ last.K = 1 /\ KnnN >= 1 /\ KnnTestReadable(KnnDim))
    => /\ last.status = "returned"
       /\ \E i \in 1..KnnN :
             /\ knn_dataSet[i].m_label = last.ret
             /\ \A j \in 1..KnnN : KnnDistTo(j) >= KnnDistTo(i)

C2_Witness ==
    /\ KnnResolved /\ last.K = 1 /\ KnnN >= 2 /\ KnnTestReadable(KnnDim)
    /\ \E i, j \in 1..KnnN :
          /\ KnnDistTo(i) < KnnDistTo(j)
          /\ knn_dataSet[i].m_label = last.ret
          /\ knn_dataSet[j].m_label # last.ret

\* The number of points of the index set S that carry label l.
KnnCount(S, l) == Cardinality({ i \in S : knn_dataSet[i].m_label = l })

\* S is a choice of K nearest points: K of them, none farther than a point
\* left out.
KnnNearest(S, K) ==
    /\ Cardinality(S) = K
    /\ \A i \in S : \A j \in (1..KnnN) \ S : KnnDistTo(j) >= KnnDistTo(i)

\* C3: with 2 <= K <= N and a readable pending query, a resolve returns a
\* label whose count is maximal among the labels of some K nearest points.
C3_VoteOverKNearest ==
    (KnnResolved /\ last.K >= 2 /\ last.K <= KnnN /\ KnnTestReadable(KnnDim))
    => /\ last.status = "returned"
       /\ \E S \in SUBSET (1..KnnN) :
             /\ KnnNearest(S, last.K)
             /\ KnnCount(S, last.ret) >= 1
             /\ \A l \in Labels : KnnCount(S, l) <= KnnCount(S, last.ret)

\* A vote that a minority label could have won: K < N, the nearest K points
\* are determined, and two of them outvote the label of a third.
C3_Witness ==
    /\ KnnResolved /\ last.K >= 2 /\ last.K <= KnnN /\ KnnTestReadable(KnnDim)
    /\ \E S \in SUBSET (1..KnnN) :
          /\ KnnNearest(S, last.K)
          /\ \E l \in Labels : l # last.ret /\ KnnCount(S, l) >= 1
                                /\ KnnCount(S, l) < KnnCount(S, last.ret)

\* The buffers of a call hold exactly dim*size values and size labels, and
\* dim and size are positive.
KnnWellFormed(a) ==
    /\ ~a.data.null /\ ~a.label.null /\ a.dim > 0 /\ a.size > 0
    /\ Len(a.data.at) = a.dim * a.size
    /\ Len(a.label.at) = a.size

\* C4: an init whose arguments fail one of the checks dim > 0, size > 0,
\* buffers present, dim*size values, size labels, leaves the stored dataset
\* exactly as it was.
C4_MalformedInitRejected ==
    [][ (last'.op = "Knn::init" /\ ~KnnWellFormed(last'.args))
        => knn_dataSet' = knn_dataSet ]_vars

\* point i of the buffers of a call
ArgPoint(a, i) == SubSeq(a.data.at, (i - 1) * a.dim + 1, i * a.dim)

\* The store of Knn is exactly the points and labels of the call a.
KnnHolds(a) ==
    /\ Len(knn_dataSet) = a.size
    /\ \A i \in 1..a.size :
          /\ knn_dataSet[i].m_data = ArgPoint(a, i)
          /\ knn_dataSet[i].m_label = a.label.at[i]

\* The store of Pca is the points of the call a, centred: as many rows and
\* columns, the same differences between the points along every coordinate,
\* and a sum of (nearly) zero along every coordinate.
PcaHolds(a) ==
    /\ pca_dataSet.rows = a.dim
    /\ pca_dataSet.cols = a.size
    /\ Len(pca_dataSet.val) = a.dim * a.size
    /\ \A i \in 1..a.dim :
          /\ \A j, k \in 1..a.size :
                Coef(pca_dataSet, i, j) - Coef(pca_dataSet, i, k)
                    = FixedPoint * (ArgPoint(a, j)[i] - ArgPoint(a, k)[i])
          /\ LET sum == SumSeq([j \in 1..a.size |-> Coef(pca_dataSet, i, j)])
             IN  0 <= sum /\ sum < a.size

\* The indices of the points of the call a labelled l, and the k-th of them.
ArgIndices(a, l) == { i \in 1..a.size : a.label.at[i] = l }
ArgKth(a, l, k) ==
    CHOOSE i \in ArgIndices(a, l) : Cardinality({ h \in ArgIndices(a, l) : h <= i }) = k

\* The store of Lda is exactly the classes of the call a: one matrix per
\* label of a, holding the points of a with that label in their order.
LdaHolds(a) ==
    /\ Len(lda_labelSet) = Len(lda_dataSet)
    /\ { lda_labelSet[c] : c \in DOMAIN lda_labelSet } = { a.label.at[i] : i \in 1..a.size }
    /\ \A c, d \in DOMAIN lda_labelSet : lda_labelSet[c] = lda_labelSet[d] => c = d
    /\ \A c \in DOMAIN lda_dataSet :
          LET m == lda_dataSet[c]
              l == lda_labelSet[c]
          IN  /\ m.rows = a.dim
              /\ m.cols = Cardinality(ArgIndices(a, l))
              /\ Len(m.val) = m.rows * m.cols
              /\ \A k \in 1..m.cols : \A i \in 1..m.rows :
                    Coef(m, i, k) = ArgPoint(a, ArgKth(a, l, k))[i]

\* C5: in each class, a successful load of B made after a successful load
\* leaves the object holding exactly B.
C5_LoadReplaces ==
    /\ (last.op = "Knn::init" /\ KnnWellFormed(last.args) /\ last.prev \in {"equal", "other"})
       => KnnHolds(last.args)
    /\ (last.op = "Pca::reduce" /\ PcaReduceGuard(last.args) /\ last.prev \in {"equal", "other"})
       => PcaHolds(last.args)
    /\ (last.op = "Lda::reduce" /\ LdaReduceGuard(last.args) /\ last.prev \in {"equal", "other"})
       => LdaHolds(last.args)

C5_Witness ==
    /\ last.op = "Knn::init" /\ KnnWellFormed(last.args) /\ last.prev = "other"
    /\ KnnHolds(last.args)

\* C6: a resolve of Knn changes neither the stored dataset nor the pending
\* query, whatever K.
C6_ResolveReadsOnly ==
    [][ last'.op = "Knn::operator[]"
        => /\ knn_dataSet' = knn_dataSet
           /\ knn_testData' = knn_testData
           /\ qbuf' = qbuf ]_vars

C6_Witness ==
    /\ KnnResolved /\ last.K >= 1 /\ last.K <= KnnN /\ KnnTestReadable(KnnDim)
    /\ last.status = "returned"

PcaResolved == last.op = "Pca::operator[]"

\* C7: with dim = D >= 2 and size = N >= 1 loaded, Pca's resolve [K]
\* returns exactly K*N values for every 1 <= K <= D-1, whatever N, without
\* reading outside the direction matrix.
C7_PcaReturnsKTimesN ==
    (PcaResolved /\ pca_dataSet.rows >= 2 /\ pca_dataSet.cols >= 1
       /\ 1 <= last.K /\ last.K <= pca_dataSet.rows - 1)
    => /\ last.status = "returned"
       /\ last.len = last.K * pca_dataSet.cols
       /\ ~last.oob

\* C8: with dim = D and size = N loaded, Pca's resolve [K] with K <= 0 or
\* K >= D returns (D-1)*N values, without an out-of-range block.
C8_PcaClampsK ==
    (PcaResolved /\ pca_dataSet.rows >= 1 /\ (last.K <= 0 \/ last.K >= pca_dataSet.rows))
    => /\ last.status = "returned"
       /\ last.len = (pca_dataSet.rows - 1) * pca_dataSet.cols
       /\ ~last.oob

LdaResolved == last.op = "Lda::operator[]"
LdaLoaded == lda_dataSet # <<>>

\* C9: with dimension D loaded, Lda's resolve [K] with K <= 0 or K >= D
\* uses D-1 directions: it returns (D-1)*N values, without an out-of-range
\* block.
C9_LdaClampsK ==
    (LdaResolved /\ LdaLoaded /\ (last.K <= 0 \/ last.K >= lda_dataSet[1].rows))
    => /\ last.status # "aborted" => last.len = (lda_dataSet[1].rows - 1) * LdaTotalNum(lda_dataSet)
       /\ ~last.oob

\* C10: Lda's resolve on a dataset with a class of one point, or with a
\* within-class scatter that has no inverse, ends in a SingularMatrix
\* failure reported to the caller and returns no projection.
C10_LdaSingularReported ==
    (LdaResolved /\ LdaLoaded /\ LdaSwSingular) => last.status = "SingularMatrix"

\* C11: Lda's resolve on a loaded dataset whose points all carry one label
\* (a single class, so Sb is zero) is flagged DegenerateInput and returns no
\* projection.
C11_LdaSingleClassFlagged ==
    (LdaResolved /\ LdaLoaded /\ Len(lda_labelSet) = 1)
    => /\ last.status = "DegenerateInput"
       /\ last.len = 0

\* The arguments of a reduce that violate its precondition: a zero dim, a
\* zero size, or an absent buffer.
PcaBadArgs(a) == a.dim = 0 \/ a.size = 0 \/ a.data.null
LdaBadArgs(a) == a.dim = 0 \/ a.size = 0 \/ a.data.null \/ a.label.null

\* C12: a Pca::reduce or Lda::reduce called with dim = 0, size = 0 or an
\* absent buffer leaves the stored matrix (Pca) or the stored class matrices
\* and labels (Lda) exactly as they were, and every answer a resolve can
\* give after the call is an answer it could give before it.
C12_BadReduceIsNoOp ==
    [][ /\ (last'.op = "Pca::reduce" /\ PcaBadArgs(last'.args))
           => /\ pca_dataSet' = pca_dataSet
              /\ \A K \in PcaKs : PcaResolveOutcomes(K)' = PcaResolveOutcomes(K)
        /\ (last'.op = "Lda::reduce" /\ LdaBadArgs(last'.args))
           => /\ lda_dataSet' = lda_dataSet
              /\ lda_labelSet' = lda_labelSet
              /\ \A K \in LdaKs : LdaResolveOutcomes(K)' = LdaResolveOutcomes(K) ]_vars

\* A reduce with a zero size made on a Pca that holds two different points.
C12_Witness ==
    /\ last.op = "Pca::reduce" /\ last.args.size = 0
    /\ pca_dataSet.cols = 2
    /\ \E i \in 1..pca_dataSet.rows : Coef(pca_dataSet, i, 1) # Coef(pca_dataSet, i, 2)

\* C13: two resolves [K] of Pca made in a row on the same loaded dataset
\* return the same sequence of values, and a resolve leaves the stored
\* centred matrix unchanged.
C13_PcaResolveRepeats ==
    [][ /\ last'.op = "Pca::operator[]" => pca_dataSet' = pca_dataSet
        /\ (/\ pca_dataSet # EmptyMatrix
            /\ last.op = "Pca::operator[]" /\ last.status = "returned"
            /\ last'.op = "Pca::operator[]" /\ last'.status = "returned"
            /\ last'.K = last.K)
           => /\ last'.len = last.len
              /\ last'.values = last.values ]_vars

\* The buffers of a call of Lda::reduce hold exactly dim*size values and size
\* labels, and dim and size are positive.
LdaWellFormed(a) ==
    /\ ~a.data.null /\ ~a.label.null /\ a.dim > 0 /\ a.size > 0
    /\ Len(a.data.at) = a.dim * a.size
    /\ Len(a.label.at) = a.size

\* C14: after a successful Lda::reduce of N labelled points the object holds
\* one matrix per distinct label of the input, the i-th stored label names
\* the i-th stored matrix, the columns of each matrix are the input points
\* with that label in their input order, no class is empty, and the class
\* sizes sum to N.
C14_LdaGroupsByLabel ==
    (last.op = "Lda::reduce" /\ LdaWellFormed(last.args))
    => LET a == last.args
           labels == { a.label.at[i] : i \in 1..a.size }
       IN  /\ Len(lda_dataSet) = Cardinality(labels)
           /\ Len(lda_labelSet) = Cardinality(labels)
           /\ \A l \in labels : \E c \in DOMAIN lda_labelSet : lda_labelSet[c] = l
           /\ \A c \in DOMAIN lda_dataSet :
                 LET m == lda_dataSet[c]
                     idx == { i \in 1..a.size : a.label.at[i] = lda_labelSet[c] }
                 IN  /\ m.rows = a.dim
                     /\ m.cols = Cardinality(idx)
                     /\ m.cols >= 1
                     /\ \A k \in 1..m.cols :
                           LET i == CHOOSE i \in idx : Cardinality({ h \in idx : h < i }) = k - 1
                           IN  [r \in 1..m.rows |-> Coef(m, r, k)] = ArgPoint(a, i)
           /\ LdaTotalNum(lda_dataSet) = a.size

\* A reduce of two different points with two different labels.
C14_Witness ==
    /\ last.op = "Lda::reduce" /\ LdaWellFormed(last.args)
    /\ Len(lda_labelSet) = 2
    /\ lda_dataSet[1] # lda_dataSet[2]

\* sortEigenVectorByValues has returned.
LdaSorted == last.op = "Lda::sortEigenVectorByValues"

\* C15: sortEigenVectorByValues leaves in eigenVectors a permutation of the
\* columns it was given, each still paired with its own eigenvalue, such that
\* the eigenvalue paired with the column at position i is >= the one paired
\* with the column at position j, for every i < j.
C15_SortedByEigenValue ==
    LdaSorted
    => LET before == last.args.eigenVectors
           values == last.args.eigenValues
           after  == last.eigenVectors
           size   == Len(values)
       IN  /\ after.rows = before.rows /\ after.cols = before.cols
           /\ \E p \in Permutations(1..size) :
                 /\ \A i \in 1..size : Col(after, i) = Col(before, p[i])
                 /\ \A i, j \in 1..size : i < j => values[p[i]] >= values[p[j]]

\* Three different columns with three different eigenvalues, given in an
\* order that is neither descending nor ascending.
C15_Witness ==
    /\ LdaSorted
    /\ last.args.eigenValues = <<1, 2, 0>>
    /\ \A i, j \in 1..3 : i # j => Col(last.args.eigenVectors, i) # Col(last.args.eigenVectors, j)
    /\ last.eigenVectors # last.args.eigenVectors

\* C16: the pending query of a Knn holds the values the query vector had
\* when classify was called: whatever the caller does to the buffer it passed
\* once classify has returned (modify it, release it), every answer a later
\* resolve can give is an answer it could give right after classify.
C16_PendingQueryKeepsValues ==
    [][ (/\ last.op = "Knn::classify"
         /\ KnnTestReadable(KnnDim)
         /\ last'.op = "caller")
        => \A K \in KnnKs : KnnResolveOutcomes(K)' = KnnResolveOutcomes(K) ]_vars

\* C17: whatever the state of a Knn (loaded or not) and whatever K >= 0, the
\* value a resolve returns is the default-constructed label or the label of
\* a stored point.
C17_ResolveReturnsKnownLabel ==
    (KnnResolved /\ last.status = "returned")
    => \/ last.ret = DefaultLabel
       \/ \E i \in 1..KnnN : knn_dataSet[i].m_label = last.ret

====
